---- MODULE Spec2Model ----
(***************************************************************************)
(* A model of haas/ext/switches/dell.py: the console driver for the Dell   *)
(* PowerConnect 55xx switch.                                                *)
(*                                                                         *)
(* Text received from the switch is a sequence of characters (one-letter   *)
(* strings); a line written to the switch is a string, with the line       *)
(* terminator that pexpect's sendline adds.                                *)
(***************************************************************************)
EXTENDS Integers, Sequences, FiniteSets, TLC

VARIABLES
    pc,            \* where the session is: the call in progress and its position
    sent,          \* everything written to the console, one entry per write
    lastCall,      \* history: the last driver call, `sent` as it was before it, the calls so far
    script,        \* history: the lines the switch prints for the current query
    pending,       \* text the switch has printed and the console has not read yet
    held,          \* text the switch prints only once it is paged forward
    buffer,        \* text the console has read and no expect has consumed yet
    console_match, \* console.match: what the expect call in progress has found
    after,         \* console.after: the text the last expect matched
    result,        \* _int_config's dictionary
    k,             \* _int_config's current key
    todo,          \* _port_configs: the ports still to query, the current one first
    error,         \* the exception that ended the call in progress, or NoError
    prompts,       \* the session's main_prompt, config_prompt, if_prompt
    creds,         \* the switch record's username and password
    port_configs,  \* get_port_networks: the dictionaries of the queried ports
    networks       \* get_port_networks: the value returned

cmdVars  == <<sent, lastCall>>
chanVars == <<script, pending, held, buffer, console_match, after>>
qryVars  == <<result, k, todo>>
sesVars  == <<prompts, creds>>
exVars   == <<port_configs, networks>>
vars     == <<pc, error, cmdVars, chanVars, qryVars, sesVars, exVars>>

(***************************************************************************)
(* Bounds of the model.                                                    *)
(***************************************************************************)
MaxCalls == 3

\* Python's None, and a value that is given: an optional value is a sequence of
\* at most one element.
None == <<>>
Some(x) == <<x>>

NoError == "none"
NoCall ==
    [op |-> "none", args |-> <<>>, before |-> <<>>, prior |-> NoError,
     unread |-> <<>>, calls |-> <<>>, n |-> 0]

VlanIds == {"5", "10"}
Interfaces == {"gi1/0/1", "gi1/0/2"}

(***************************************************************************)
(* The Command Driver: every method only writes lines.                     *)
(***************************************************************************)

\* console.sendline(line): the line and the line terminator, in one write.
_sendline(s, line) == Append(s, line \o "\n")

\* console.send(text): the text alone.
_send(s, text) == Append(s, text)

enter_if_prompt(s, interface) ==
    _sendline(_sendline(s, "config"), "int " \o interface)

\* An exit_if_prompt that writes `exit` once.
exit_if_prompt_once(s) == _sendline(s, "exit")

exit_if_prompt(s) == _sendline(_sendline(s, "exit"), "exit")

\* An enable_vlan that writes nothing when the console's last two lines are
\* already its own.
enable_vlan_once(s, vlan_id) ==
    LET lines == <<"sw mode trunk\n", "sw trunk allowed vlan add " \o vlan_id \o "\n">>
    IN  IF Len(s) >= 2 /\ SubSeq(s, Len(s) - 1, Len(s)) = lines
        THEN s
        ELSE s \o lines

enable_vlan(s, vlan_id) ==
    _sendline(_sendline(s, "sw mode trunk"),
              "sw trunk allowed vlan add " \o vlan_id)

disable_vlan(s, vlan_id) ==
    _sendline(s, "sw trunk allowed vlan remove " \o vlan_id)

\* A set_native that trunks the new VLAN before it makes it native.
set_native_enable_first(s, old, new) ==
    LET s1 == IF old # None THEN disable_vlan(s, old[1]) ELSE s
    IN  _sendline(enable_vlan(s1, new), "sw trunk native vlan " \o new)

set_native(s, old, new) ==
    LET s1 == IF old # None THEN disable_vlan(s, old[1]) ELSE s
    IN  enable_vlan(_sendline(s1, "sw trunk native vlan " \o new), new)

\* A disable_native that clears the native VLAN before it removes the VLAN.
disable_native_none_first(s, vlan_id) ==
    disable_vlan(_sendline(s, "sw trunk native vlan none"), vlan_id)

disable_native(s, vlan_id) ==
    _sendline(disable_vlan(s, vlan_id), "sw trunk native vlan none")

\* The session exists and no call is in progress.
Idle == pc = "idle"

CanCall == Idle /\ lastCall.n < MaxCalls

RECURSIVE Flatten(_)
Flatten(lines) ==
    IF lines = <<>> THEN <<>> ELSE Head(lines) \o Flatten(Tail(lines))

\* The lines the call in progress has to read: those the switch had printed
\* and the console had not taken when the call began, and the switch's answers
\* to the call's queries so far (Queried are the ports of these).  Shown are the lines of them the switch has printed, Handled
\* how many of these the console has taken, Unread the others (text that is
\* left unread by a call that does not read by lines, as connect, is one
\* line of it).
Queried ==
    IF lastCall.op = "get_port_networks"
    THEN LET ports == lastCall.args[1]
         IN  SubSeq(ports, 1, IF todo = <<>> THEN Len(ports)
                              ELSE Len(ports) - Len(todo) + 1)
    ELSE <<>>
Transcript ==
    lastCall.unread \o Flatten([i \in 1..Len(Queried) |-> script[Queried[i]]])
Shown ==
    IF lastCall.op = "get_port_networks"
    THEN SubSeq(Transcript, 1, Len(Transcript) - Len(held))
    ELSE Transcript
Handled ==
    {n \in 0..Len(Shown) :
        Len(Flatten(SubSeq(Shown, 1, n)))
            = Len(Flatten(Shown)) - Len(buffer) - Len(pending)}
Unread ==
    IF Handled # {}
    THEN LET n == CHOOSE m \in Handled : TRUE
         IN  SubSeq(Shown, n + 1, Len(Shown))
    ELSE <<buffer \o pending>>

\* The record of a call: what it is, what the console held before it, the
\* exception the call before it ended with, the lines left unread, and the
\* calls made on the session so far, this one last.
CallOf(op, args) ==
    [op |-> op, args |-> args, before |-> sent, prior |-> error,
     unread |-> Unread, calls |-> Append(lastCall.calls, <<op, args>>),
     n |-> lastCall.n + 1]

\* A Command Driver call: it writes its lines and returns.
Called(op, args, s) ==
    /\ sent' = s
    /\ lastCall' = CallOf(op, args)
    /\ error' = NoError
    /\ UNCHANGED <<pc, chanVars, qryVars, sesVars, exVars>>

Call_enter_if_prompt ==
    \E interface \in Interfaces :
        CanCall /\ Called("enter_if_prompt", <<interface>>,
                          enter_if_prompt(sent, interface))

Call_exit_if_prompt ==
    CanCall /\ Called("exit_if_prompt", <<>>, exit_if_prompt(sent))

Call_enable_vlan ==
    \E vlan_id \in VlanIds :
        CanCall /\ Called("enable_vlan", <<vlan_id>>, enable_vlan(sent, vlan_id))

Call_disable_vlan ==
    \E vlan_id \in VlanIds :
        CanCall /\ Called("disable_vlan", <<vlan_id>>, disable_vlan(sent, vlan_id))

Call_set_native ==
    \E old \in {None} \cup {Some(v) : v \in VlanIds}, new \in VlanIds :
        CanCall /\ Called("set_native", <<old, new>>, set_native(sent, old, new))

Call_disable_native ==
    \E vlan_id \in VlanIds :
        CanCall /\ Called("disable_native", <<vlan_id>>,
                          disable_native(sent, vlan_id))

\* The state after _Session.__init__, for a session whose login is done.
InitCmd ==
    /\ pc = "idle"
    /\ error = NoError
    /\ sent = <<>>
    /\ lastCall = NoCall
    /\ script = <<>>
    /\ pending = <<>>
    /\ held = <<>>
    /\ buffer = <<>>
    /\ console_match = <<>>
    /\ after = <<>>
    /\ result = <<>>
    /\ k = <<>>
    /\ todo = <<>>
    /\ prompts = <<>>
    /\ creds = <<>>
    /\ port_configs = <<>>
    /\ networks = <<>>

NextCmd ==
    \/ Call_enter_if_prompt
    \/ Call_exit_if_prompt
    \/ Call_enable_vlan
    \/ Call_disable_vlan
    \/ Call_set_native
    \/ Call_disable_native

SpecCmd == InitCmd /\ [][NextCmd]_vars

(***************************************************************************)
(* C1. set_native(old, new) writes exactly: the remove line for old (only  *)
(* when old is given), then `sw trunk native vlan <new>`, then             *)
(* `sw mode trunk`, then `sw trunk allowed vlan add <new>`; what was       *)
(* written before the call is untouched and nothing follows.               *)
(***************************************************************************)
C1_SetNativeLines ==
    lastCall.op = "set_native" =>
        LET old == lastCall.args[1]
            new == lastCall.args[2]
            removal == IF old = None THEN <<>>
                       ELSE <<"sw trunk allowed vlan remove " \o old[1] \o "\n">>
        IN  sent = lastCall.before \o removal \o
                   << "sw trunk native vlan " \o new \o "\n",
                      "sw mode trunk\n",
                      "sw trunk allowed vlan add " \o new \o "\n" >>

\* set_native(old=5, new=10) has been called after some other call.
C1_Witness ==
    /\ lastCall.op = "set_native"
    /\ lastCall.args = <<Some("5"), "10">>
    /\ lastCall.before # <<>>
    /\ Len(sent) = Len(lastCall.before) + 4

\* The switch's shell, as it takes the lines written to it: `config` enters
\* config mode from the main shell, `int <interface>` enters interface mode
\* from config mode, `exit` leaves the mode the shell is in (and the main
\* shell logs the session out); any other line leaves the mode as it is.
ShellAfter(mode, line) ==
    CASE mode = "logged_out" -> mode
      [] line = "config\n" /\ mode = "main" -> "config"
      [] line \in {"int " \o i \o "\n" : i \in Interfaces}
             /\ mode \in {"config", "interface"} -> "interface"
      [] line = "exit\n" ->
             (CASE mode = "interface" -> "config"
                [] mode = "config" -> "main"
                [] mode = "main" -> "logged_out")
      [] OTHER -> mode

RECURSIVE ShellMode(_, _)
ShellMode(mode, lines) ==
    IF lines = <<>> THEN mode
    ELSE ShellMode(ShellAfter(mode, Head(lines)), Tail(lines))

VlanCalls == {"enable_vlan", "disable_vlan", "set_native", "disable_native"}

(***************************************************************************)
(* C12. enter_if_prompt(interface) writes exactly `config` then            *)
(* `int <interface>`, exit_if_prompt writes exactly `exit` twice; on a     *)
(* switch that starts in its main shell, enter_if_prompt, then any VLAN    *)
(* calls, then exit_if_prompt leave the switch in its main shell, the      *)
(* session logged in.                                                      *)
(***************************************************************************)
C12_InterfaceContext ==
    /\ lastCall.op = "enter_if_prompt" =>
           sent = lastCall.before
                      \o <<"config\n", "int " \o lastCall.args[1] \o "\n">>
    /\ lastCall.op = "exit_if_prompt" =>
           sent = lastCall.before \o <<"exit\n", "exit\n">>
    /\ LET calls == lastCall.calls
       IN  /\ Len(calls) >= 2
           /\ calls[1][1] = "enter_if_prompt"
           /\ calls[Len(calls)][1] = "exit_if_prompt"
           /\ \A i \in 2..(Len(calls) - 1) : calls[i][1] \in VlanCalls
           => ShellMode("main", sent) = "main"

\* enter_if_prompt, set_native, exit_if_prompt have been called, in this order.
C12_Witness ==
    /\ Len(lastCall.calls) = 3
    /\ lastCall.calls[1][1] = "enter_if_prompt"
    /\ lastCall.calls[2][1] = "set_native"
    /\ lastCall.calls[3][1] = "exit_if_prompt"
    /\ ShellMode("main", lastCall.before) = "interface"

(***************************************************************************)
(* C13. The Command Driver keeps no VLAN state: enable_vlan(v) writes      *)
(* `sw mode trunk` and `sw trunk allowed vlan add <v>` whatever was called *)
(* before, so enable_vlan(v) called twice in a row has written these two   *)
(* lines twice, four lines in all, and neither call raises.                *)
(***************************************************************************)
C13_EnableTwice ==
    lastCall.op = "enable_vlan" =>
        LET v == lastCall.args[1]
            lines == <<"sw mode trunk\n", "sw trunk allowed vlan add " \o v \o "\n">>
            calls == lastCall.calls
        IN  /\ error = NoError
            /\ sent = lastCall.before \o lines
            /\ Len(calls) >= 2 /\ calls[Len(calls) - 1] = <<"enable_vlan", <<v>> >>
                   => /\ Len(sent) >= 4
                      /\ SubSeq(sent, Len(sent) - 3, Len(sent)) = lines \o lines

\* enable_vlan(10) has been called twice in a row.
C13_Witness ==
    /\ Len(lastCall.calls) >= 2
    /\ lastCall.calls[Len(lastCall.calls)] = <<"enable_vlan", <<"10">> >>
    /\ lastCall.calls[Len(lastCall.calls) - 1] = <<"enable_vlan", <<"10">> >>

(***************************************************************************)
(* C14. For every VLAN id v, disable_native(v) writes exactly              *)
(* `sw trunk allowed vlan remove <v>` and then `sw trunk native vlan       *)
(* none`, and nothing else.                                                *)
(***************************************************************************)
C14_DisableNativeLines ==
    lastCall.op = "disable_native" =>
        sent = lastCall.before
                   \o << "sw trunk allowed vlan remove " \o lastCall.args[1] \o "\n",
                         "sw trunk native vlan none\n" >>

\* disable_native(5) has been called after some other call.
C14_Witness ==
    /\ lastCall.op = "disable_native"
    /\ lastCall.args = <<"5">>
    /\ lastCall.before # <<>>

(***************************************************************************)
(* Regular expressions, as far as the driver's patterns use them: literal  *)
(* characters, escapes, `.`, character classes, `*` and `+`, and groups    *)
(* that carry no quantifier.  A pattern is the sequence of its lexical     *)
(* units, each the characters it is written with: an escape \x, a class    *)
(* [...], or a single character.  A pattern is matched as Python's re      *)
(* matches it: leftmost start, each quantifier taking as much as the rest  *)
(* of the pattern allows.                                                  *)
(***************************************************************************)
Backslash == "\\"

Letters ==
    {"a", "b", "c", "d", "e", "f", "g", "h", "i", "j", "k", "l", "m", "n", "o",
     "p", "q", "r", "s", "t", "u", "v", "w", "x", "y", "z",
     "A", "B", "C", "D", "E", "F", "G", "H", "I", "J", "K", "L", "M", "N", "O",
     "P", "Q", "R", "S", "T", "U", "V", "W", "X", "Y", "Z"}

Digits == {"0", "1", "2", "3", "4", "5", "6", "7", "8", "9"}

\* The units of a text that holds no escape and no class: its characters.
Units(text) == [i \in 1..Len(text) |-> <<text[i]>>]

\* The character an escape \x stands for.
Escaped(x) ==
    CASE x = "r" -> "\r" [] x = "n" -> "\n" [] x = "t" -> "\t" [] OTHER -> x

\* The characters of a class, from its member at u[i] to its closing bracket.
RECURSIVE re_class(_, _)
re_class(u, i) ==
    IF i > Len(u) \/ u[i] = "]" THEN {}
    ELSE IF u[i] = Backslash /\ i < Len(u)
         THEN {Escaped(u[i + 1])} \cup re_class(u, i + 2)
         ELSE {u[i]} \cup re_class(u, i + 1)

\* The atom a unit is: the characters it names, and whether it accepts those
\* or all the others.
re_atom(u) ==
    IF u[1] = Backslash /\ Len(u) = 2
    THEN [chars |-> {Escaped(u[2])}, negated |-> FALSE]
    ELSE IF u = <<".">>
    THEN [chars |-> {"\n"}, negated |-> TRUE]
    ELSE IF u[1] = "[" /\ Len(u) > 1
    THEN IF u[2] = "^"
         THEN [chars |-> re_class(u, 3), negated |-> TRUE]
         ELSE [chars |-> re_class(u, 2), negated |-> FALSE]
    ELSE [chars |-> {u[1]}, negated |-> FALSE]

Quantifiers == {<<"*">>, <<"+">>}
GroupMarks == {<<"(">>, <<")">>}

\* re.compile: one atom per unit that is neither a quantifier nor a group mark,
\* with the quantifier that follows it.
re_compile(p) ==
    LET places == {i \in 1..Len(p) : p[i] \notin Quantifiers \cup GroupMarks}
        place(j) == CHOOSE i \in places :
                        Cardinality({h \in places : h < i}) = j - 1
        rep(i) == IF i < Len(p) /\ p[i + 1] = <<"*">> THEN "star"
                  ELSE IF i < Len(p) /\ p[i + 1] = <<"+">> THEN "plus"
                  ELSE "one"
    IN  [j \in 1..Cardinality(places) |->
            [atom |-> re_atom(p[place(j)]), rep |-> rep(place(j))]]

Accepts(a, c) == (c \in a.atom.chars) # a.atom.negated

\* How many characters from s[i] on the atom accepts in a row.
Run(a, s, i) ==
    LET stop == CHOOSE j \in i..(Len(s) + 1) :
                    /\ j = Len(s) + 1 \/ ~ Accepts(a, s[j])
                    /\ \A h \in i..(j - 1) : Accepts(a, s[h])
    IN  stop - i

\* How many atoms from atoms[n] on carry no quantifier.
Plain(atoms, n) ==
    LET stop == CHOOSE j \in n..(Len(atoms) + 1) :
                    /\ j = Len(atoms) + 1 \/ atoms[j].rep # "one"
                    /\ \A h \in n..(j - 1) : atoms[h].rep = "one"
    IN  stop - n

\* The match of atoms[n..] that starts at s[i]: the position after it, or 0 when
\* there is none.  Atoms without a quantifier take one character each; a
\* quantified atom takes as many characters as it can while the rest of the
\* pattern still matches.
RECURSIVE re_match_at(_, _, _, _)
re_match_at(atoms, n, s, i) ==
    IF n > Len(atoms) THEN i
    ELSE IF atoms[n].rep = "one"
    THEN IF i > Len(s) \/ ~ Accepts(atoms[n], s[i]) THEN 0
         ELSE LET m == Plain(atoms, n)
              IN  IF /\ i + m - 1 <= Len(s)
                     /\ \A h \in 1..(m - 1) : Accepts(atoms[n + h], s[i + h])
                  THEN re_match_at(atoms, n + m, s, i + m)
                  ELSE 0
    ELSE LET most == i + Run(atoms[n], s, i)
             least == IF atoms[n].rep = "plus" THEN i + 1 ELSE i
             rest == [j \in least..most |-> re_match_at(atoms, n + 1, s, j)]
             ends == {j \in least..most : rest[j] # 0}
         IN  IF ends = {} THEN 0
             ELSE rest[CHOOSE j \in ends : \A h \in ends : h <= j]

\* regex.search(s): None, or the leftmost match as
\* <<start, position after the match>>.
re_search(atoms, s) ==
    LET starts == IF atoms[1].rep = "star" THEN 1..(Len(s) + 1)
                  ELSE {i \in 1..Len(s) : Accepts(atoms[1], s[i])}
        at(i) == re_match_at(atoms, 1, s, i)
    IN  IF \A i \in starts : at(i) = 0 THEN None
        ELSE LET start == CHOOSE i \in starts :
                              /\ at(i) # 0
                              /\ \A h \in starts : h < i => at(h) = 0
             IN  Some(<<start, at(start)>>)

\* re.escape of Python 2: a backslash before every character that is not an
\* ASCII letter or digit.
re_escape(text) ==
    [i \in 1..Len(text) |->
        IF text[i] \in Letters \cup Digits
        THEN <<text[i]>>
        ELSE <<Backslash, text[i]>>]

(***************************************************************************)
(* The VLAN Extractor: get_port_networks, from the dictionaries on.        *)
(***************************************************************************)
MaxLen == 4

\* What str.strip() removes.
Whitespace == {" ", "\t", "\n", "\r", "\f"}

KeyNative == <<"T","r","u","n","k","i","n","g"," ","N","a","t","i","v","e"," ","M","o","d","e"," ","V","L","A","N">>
KeyTrunk == <<"T","r","u","n","k","i","n","g"," ","V","L","A","N","s"," ","E","n","a","b","l","e","d">>
VlanPrefix == <<"v","l","a","n","/">>
VlanNative == <<"v","l","a","n","/","n","a","t","i","v","e">>

KeyError == "KeyError"

DigitValue(c) ==
    CASE c = "0" -> 0 [] c = "1" -> 1 [] c = "2" -> 2 [] c = "3" -> 3
      [] c = "4" -> 4 [] c = "5" -> 5 [] c = "6" -> 6 [] c = "7" -> 7
      [] c = "8" -> 8 [] c = "9" -> 9

RECURSIVE lstrip(_, _)
lstrip(s, chars) ==
    IF s # <<>> /\ Head(s) \in chars THEN lstrip(Tail(s), chars) ELSE s

RECURSIVE rstrip(_, _)
rstrip(s, chars) ==
    IF s # <<>> /\ s[Len(s)] \in chars
    THEN rstrip(SubSeq(s, 1, Len(s) - 1), chars)
    ELSE s

\* str.strip(chars)
strip_chars(s, chars) == rstrip(lstrip(s, chars), chars)

\* A strip that leaves the leading whitespace.
strip_right_only(s) == rstrip(s, Whitespace)

\* str.strip()
strip(s) == strip_chars(s, Whitespace)

RECURSIVE digit_run(_)
digit_run(s) ==
    IF s # <<>> /\ Head(s) \in Digits
    THEN <<Head(s)>> \o digit_run(Tail(s))
    ELSE <<>>

\* re.match(num_re, s) with num_re = (\d+): None, or the match's groups()[0].
num_match(s) ==
    IF digit_run(s) = <<>> THEN None ELSE Some(digit_run(s))

\* int(num_str), for a string of decimal digits.
RECURSIVE int(_)
int(num_str) ==
    IF num_str = <<>> THEN 0
    ELSE 10 * int(SubSeq(num_str, 1, Len(num_str) - 1))
         + DigitValue(num_str[Len(num_str)])

\* str.split(sep) for a one-character separator: every occurrence splits, and
\* empty pieces are kept.
RECURSIVE split(_, _)
split(s, sep) ==
    IF \A i \in 1..Len(s) : s[i] # sep THEN <<s>>
    ELSE LET i == CHOOSE j \in 1..Len(s) :
                      s[j] = sep /\ \A h \in 1..(j - 1) : s[h] # sep
         IN  <<SubSeq(s, 1, i - 1)>> \o split(SubSeq(s, i + 1, Len(s)), sep)

\* The inner loop (lines 148-156): the entries of one range token.
RECURSIVE range_entries(_)
range_entries(num_strs) ==
    IF num_strs = <<>> THEN <<>>
    ELSE LET match == num_match(strip(Head(num_strs)))
             entry == IF match # None
                      THEN << <<VlanPrefix \o match[1], int(match[1])>> >>
                      ELSE <<>>
         IN  entry \o range_entries(Tail(num_strs))

\* An outer loop that does not split the range tokens on `-`.
RECURSIVE trunk_entries_unsplit(_)
trunk_entries_unsplit(range_strs) ==
    IF range_strs = <<>> THEN <<>>
    ELSE range_entries(<<Head(range_strs)>>)
         \o trunk_entries_unsplit(Tail(range_strs))

\* The outer loop (lines 147-156): the entries of every range token, in order.
RECURSIVE trunk_entries(_)
trunk_entries(range_strs) ==
    IF range_strs = <<>> THEN <<>>
    ELSE range_entries(split(Head(range_strs), "-"))
         \o trunk_entries(Tail(range_strs))

\* A native entry put in front of the trunked ones.
port_networks_native_first(v) ==
    LET match == num_match(strip(v[KeyNative]))
        trunked == trunk_entries(split(v[KeyTrunk], ","))
    IN  IF match # None
        THEN << <<VlanNative, int(match[1])>> >> \o trunked
        ELSE trunked

\* The loop body (lines 135-159): the list of one port, from its dictionary.
port_networks(v) ==
    LET match == num_match(strip(v[KeyNative]))
        trunked == trunk_entries(split(v[KeyTrunk], ","))
    IN  IF match # None
        THEN Append(trunked, <<VlanNative, int(match[1])>>)
        ELSE trunked

\* A get_port_networks that leaves out the ports whose dictionary lacks one
\* of the two fields.
get_port_networks_skipping(configs) ==
    [raised |-> NoError,
     value |-> [port \in {p \in DOMAIN configs :
                             {KeyNative, KeyTrunk} \subseteq DOMAIN configs[p]} |->
                   port_networks(configs[port])]]

\* Lines 133-160. A dictionary without one of the two fields raises KeyError,
\* and nothing is returned.
get_port_networks(configs) ==
    IF \E port \in DOMAIN configs :
           ~ ({KeyNative, KeyTrunk} \subseteq DOMAIN configs[port])
    THEN [raised |-> KeyError, value |-> <<>>]
    ELSE [raised |-> NoError,
          value |-> [port \in DOMAIN configs |-> port_networks(configs[port])]]

Extract ==
    /\ pc = "extract"
    /\ LET r == get_port_networks(port_configs)
       IN  /\ error' = r.raised
           /\ networks' = r.value
           /\ pc' = IF r.raised = NoError THEN "returned" ELSE "raised"
    /\ UNCHANGED <<port_configs, cmdVars, chanVars, qryVars, sesVars>>

\* The field values the extractor is run on: every string of at most MaxLen
\* characters of FieldAlphabet for one field, with a sample for the other.
FieldAlphabet == {"1", "7", ",", "-", " ", "("}

RECURSIVE StringsUpTo(_, _)
StringsUpTo(alphabet, n) ==
    IF n = 0 THEN {<<>>}
    ELSE LET shorter == StringsUpTo(alphabet, n - 1)
         IN  shorter \cup {Append(t, c) : t \in shorter, c \in alphabet}

Sample_1_5to7_20 == <<"1",",","5","-","7",","," ","2","0">>
Sample_100_Inactive == <<" ","1","0","0"," ","(","I","n","a","c","t","i","v","e",")","\r","\n">>
Sample_Disabled == <<" ","D","i","s","a","b","l","e","d","\r","\n">>
Sample_7 == <<" ","7","\r","\n">>
Sample_Trunk == <<" ","1",",","7","-","1","0","(","I","n","a","c","t","i","v","e",")",","," ","n","o","n","e",","," ","7","\r","\n">>

NativeSamples == {Sample_100_Inactive, Sample_Disabled, Sample_7}
TrunkSamples == {Sample_1_5to7_20, Sample_Trunk}

FieldPairs ==
    (NativeSamples \X StringsUpTo(FieldAlphabet, MaxLen))
    \cup (StringsUpTo(FieldAlphabet, MaxLen) \X TrunkSamples)
    \cup (NativeSamples \X TrunkSamples)

PortConfig(pair) == (KeyNative :> pair[1]) @@ (KeyTrunk :> pair[2])

\* Dictionaries that _int_config can return and that lack one of the two
\* fields, or both.
LackingConfigs ==
    {(KeyNative :> Sample_7),
     (KeyTrunk :> Sample_Trunk),
     (<<"A">> :> <<"1", "\r", "\n">>)}

InitExtract ==
    /\ pc = "extract"
    /\ error = NoError
    /\ \/ \E pair \in FieldPairs :
              \/ port_configs = ("gi1/0/1" :> PortConfig(pair))
              \/ /\ pair \in NativeSamples \X TrunkSamples
                 /\ \E other \in NativeSamples \X TrunkSamples :
                        port_configs = ("gi1/0/1" :> PortConfig(pair))
                                       @@ ("gi1/0/2" :> PortConfig(other))
       \/ \E lacking \in LackingConfigs :
              \/ port_configs = ("gi1/0/1" :> lacking)
              \/ \E other \in LackingConfigs
                             \cup {PortConfig(<<Sample_7, Sample_Trunk>>)} :
                     \/ port_configs = ("gi1/0/1" :> lacking) @@ ("gi1/0/2" :> other)
                     \/ port_configs = ("gi1/0/1" :> other) @@ ("gi1/0/2" :> lacking)
    /\ networks = <<>>
    /\ sent = <<>>
    /\ lastCall = NoCall
    /\ script = <<>>
    /\ pending = <<>>
    /\ held = <<>>
    /\ buffer = <<>>
    /\ console_match = <<>>
    /\ after = <<>>
    /\ result = <<>>
    /\ k = <<>>
    /\ todo = <<>>
    /\ prompts = <<>>
    /\ creds = <<>>

NextExtract == Extract

SpecExtract == InitExtract /\ [][NextExtract]_vars

(***************************************************************************)
(* What the claims say of a field value, stated on the positions of the    *)
(* value's characters.                                                     *)
(***************************************************************************)
SetMin(S) == CHOOSE x \in S : \A y \in S : x <= y
SetMax(S) == CHOOSE x \in S : \A y \in S : y <= x

\* The value without its leading and trailing whitespace.
Trimmed(s) ==
    LET solid == {i \in 1..Len(s) : s[i] \notin Whitespace}
    IN  IF solid = {} THEN <<>> ELSE SubSeq(s, SetMin(solid), SetMax(solid))

\* The longest prefix of decimal digits.
LeadingDigits(t) ==
    LET n == CHOOSE m \in 0..Len(t) :
                 /\ \A i \in 1..m : t[i] \in Digits
                 /\ m < Len(t) => t[m + 1] \notin Digits
    IN  SubSeq(t, 1, n)

RECURSIVE Power10(_)
Power10(e) == IF e = 0 THEN 1 ELSE 10 * Power10(e - 1)

\* The number a string of digits denotes: the sum of digit * 10^place.
RECURSIVE PlaceSum(_, _)
PlaceSum(d, i) ==
    IF i > Len(d) THEN 0
    ELSE DigitValue(d[i]) * Power10(Len(d) - i) + PlaceSum(d, i + 1)

Denoted(d) == PlaceSum(d, 1)

\* The pieces of s between the characters of seps, in order.
Pieces(s, seps) ==
    LET cuts == {0, Len(s) + 1} \cup {i \in 1..Len(s) : s[i] \in seps}
        cut(j) == CHOOSE c \in cuts : Cardinality({d \in cuts : d < c}) = j - 1
    IN  [j \in 1..(Cardinality(cuts) - 1) |->
            SubSeq(s, cut(j) + 1, cut(j + 1) - 1)]

HasId(piece) == LeadingDigits(Trimmed(piece)) # <<>>

\* The entries the trunked field stands for: one per sub-token that starts
\* with a digit, comma tokens in order and their `-` sub-tokens in order.
TrunkedOf(value) ==
    LET named == SelectSeq(Pieces(value, {",", "-"}), HasId)
    IN  [i \in 1..Len(named) |->
            LET d == LeadingDigits(Trimmed(named[i]))
            IN  <<VlanPrefix \o d, Denoted(d)>>]

NativeAt(n) == {i \in 1..Len(n) : n[i][1] = VlanNative}

(***************************************************************************)
(* C2. In every port's list at most one entry is named vlan/native; it is  *)
(* the last one, after the vlan/<id> entries in the order parsed, and it   *)
(* is there whenever a native id was found, also when that id is trunked.  *)
(***************************************************************************)
C2_NativeEntryLast ==
    pc = "returned" =>
        \A port \in DOMAIN networks :
            LET n == networks[port]
                v == port_configs[port]
                trunked == TrunkedOf(v[KeyTrunk])
                found == LeadingDigits(Trimmed(v[KeyNative])) # <<>>
            IN  /\ Cardinality(NativeAt(n)) <= 1
                /\ NativeAt(n) \subseteq {Len(n)}
                /\ found => NativeAt(n) = {Len(n)} /\ Len(n) = Len(trunked) + 1
                /\ ~ found => NativeAt(n) = {}
                /\ \A i \in 1..Len(trunked) : n[i] = trunked[i]

\* A port whose native id is also among its trunked ids: both entries are there.
C2_Witness ==
    /\ pc = "returned"
    /\ \E port \in DOMAIN networks :
           LET n == networks[port]
           IN  /\ Len(n) >= 3
               /\ n[Len(n)][1] = VlanNative
               /\ \E i \in 1..(Len(n) - 1) : n[i][2] = n[Len(n)][2]

(***************************************************************************)
(* C3. The value "1,5-7, 20" (no native VLAN) yields exactly vlan/1,       *)
(* vlan/5, vlan/6, vlan/7, vlan/20.                                        *)
(***************************************************************************)
C3_RangeExpanded ==
    ( /\ pc = "returned"
      /\ "gi1/0/1" \in DOMAIN port_configs
      /\ port_configs["gi1/0/1"][KeyTrunk] = Sample_1_5to7_20
      /\ port_configs["gi1/0/1"][KeyNative] = Sample_Disabled )
    => networks["gi1/0/1"] = << <<VlanPrefix \o <<"1">>, 1>>,
                                <<VlanPrefix \o <<"5">>, 5>>,
                                <<VlanPrefix \o <<"6">>, 6>>,
                                <<VlanPrefix \o <<"7">>, 7>>,
                                <<VlanPrefix \o <<"2", "0">>, 20>> >>

(***************************************************************************)
(* C4. The trunked entries are exactly one (vlan/<d>, int(d)) per          *)
(* sub-token whose trimmed text starts with a digit, d its leading digits: *)
(* comma tokens in order, `-` sub-tokens in order; other sub-tokens give   *)
(* nothing, text after the digits changes nothing, and lo-hi gives only    *)
(* lo and hi.                                                              *)
(***************************************************************************)
C4_TrunkedEntries ==
    pc = "returned" =>
        \A port \in DOMAIN networks :
            LET n == networks[port]
                trunked == TrunkedOf(port_configs[port][KeyTrunk])
            IN  /\ SubSeq(n, 1, Len(n) - Cardinality(NativeAt(n))) = trunked
                /\ \A i \in 1..Len(trunked) :
                       \E piece \in
                           {Pieces(port_configs[port][KeyTrunk], {",", "-"})[j] :
                               j \in 1..Len(Pieces(port_configs[port][KeyTrunk],
                                                   {",", "-"}))} :
                           n[i][2] = Denoted(LeadingDigits(Trimmed(piece)))

\* " 1,7-10(Inactive), none, 7": 7-10 gives 7 and 10 only, `none` gives nothing.
C4_Witness ==
    /\ pc = "returned"
    /\ \E port \in DOMAIN networks :
           /\ port_configs[port][KeyTrunk] = Sample_Trunk
           /\ port_configs[port][KeyNative] = Sample_Disabled
           /\ networks[port] = << <<VlanPrefix \o <<"1">>, 1>>,
                                  <<VlanPrefix \o <<"7">>, 7>>,
                                  <<VlanPrefix \o <<"1", "0">>, 10>>,
                                  <<VlanPrefix \o <<"7">>, 7>> >>

(***************************************************************************)
(* C5. The native id is the number denoted by the leading digits of the    *)
(* trimmed "Trunking Native Mode VLAN" value, a non-negative integer; a    *)
(* trimmed value that does not start with a digit gives no vlan/native     *)
(* entry.                                                                  *)
(***************************************************************************)
C5_NativeId ==
    pc = "returned" =>
        \A port \in DOMAIN networks :
            LET n == networks[port]
                d == LeadingDigits(Trimmed(port_configs[port][KeyNative]))
            IN  IF d = <<>>
                THEN NativeAt(n) = {}
                ELSE /\ n # <<>>
                     /\ n[Len(n)] = <<VlanNative, Denoted(d)>>
                     /\ n[Len(n)][2] \in Nat

\* " 100 (Inactive)" has given the native id 100.
C5_Witness ==
    /\ pc = "returned"
    /\ \E port \in DOMAIN networks :
           /\ port_configs[port][KeyNative] = Sample_100_Inactive
           /\ networks[port] # <<>>
           /\ networks[port][Len(networks[port])] = <<VlanNative, 100>>

\* The dictionary has both fields.
HasBothFields(v) == {KeyNative, KeyTrunk} \subseteq DOMAIN v

(***************************************************************************)
(* C19. When the dictionary of any port lacks the field "Trunking Native   *)
(* Mode VLAN" or the field "Trunking VLANs Enabled", get_port_networks     *)
(* ends with an error and returns no mapping: no port has a list, neither  *)
(* the ports whose dictionaries have both fields nor, as an empty or       *)
(* partial list, the port that lacks one.                                  *)
(***************************************************************************)
C19_MissingFieldFails ==
    ( /\ pc \in {"returned", "raised"}
      /\ \E port \in DOMAIN port_configs : ~ HasBothFields(port_configs[port]) )
    => /\ pc = "raised"
       /\ error = KeyError
       /\ networks = <<>>

\* Two ports, the dictionary of one complete, the other's without a field.
C19_Witness ==
    /\ pc = "raised"
    /\ error = KeyError
    /\ networks = <<>>
    /\ \E port, other \in DOMAIN port_configs :
           /\ HasBothFields(port_configs[port])
           /\ ~ HasBothFields(port_configs[other])

(***************************************************************************)
(* The console: pexpect's spawn object, and the switch at its other end.   *)
(***************************************************************************)
MaxLines == 3
MaxQueries == 2

\* pexpect.TIMEOUT: nothing that matches arrived within the console's timeout.
Timeout == "TIMEOUT"

BannerText == <<"M","o","r","e",":"," ","<","s","p","a","c","e",">",","," "," ","Q","u","i","t",":"," ","q"," ","o","r"," ","C","T","R","L","+","Z",","," ","O","n","e"," ","l","i","n","e",":"," ","<","r","e","t","u","r","n",">"," ">>
EndMarker == <<"C","l","a","s","s","i","f","i","c","a","t","i","o","n"," ","r","u","l","e","s",":","\r","\n">>
SwitchPrompt == <<"s","w","1","#">>

\* Line 175-180.
alternatives ==
    << re_escape(BannerText),
       Units(<<"C","l","a","s","s","i","f","i","c","a","t","i","o","n"," ","r","u","l","e","s",":">>) \o << <<Backslash, "r">>, <<Backslash, "n">> >>,
       << <<"[","^"," ","\\","t","\\","r","\\","n","]">>, <<"[","^",":","]">>, <<"*">>, <<":">>, <<"[","^","\\","n","]">>, <<"*">>, <<"\\","n">> >>,
       << <<" ">>, <<"[","^","\\","n","]">>, <<"*">>, <<"\\","n">> >> >>

\* Lines 74, 76 and 85: what connect expects.
user_name_challenge == Units(<<"U","s","e","r"," ","N","a","m","e",":">>)

password_challenge == Units(<<"P","a","s","s","w","o","r","d",":">>)

cmd_prompt_pattern ==
    << <<"[","\\","r","\\","n","]">>, <<"+">>, <<".">>, <<"+">>, <<"#">> >>

\* The compiled patterns of an expect call (pexpect compiles what it is given).
compiled_login ==
    [user_name |-> re_compile(user_name_challenge),
     password |-> re_compile(password_challenge),
     cmd_prompt |-> re_compile(cmd_prompt_pattern)]

compiled_alternatives == [i \in 1..Len(alternatives) |-> re_compile(alternatives[i])]

\* spawn.expect_list: None, or the match that starts first in the text read so
\* far, the pattern listed first winning among those that start together.
\* The index counts from 0, as in Python.
expect_list(atom_lists, text) ==
    LET found == {<<i, re_search(atom_lists[i], text)>> : i \in 1..Len(atom_lists)}
        hits == {f \in found : f[2] # None}
    IN  IF hits = {} THEN None
        ELSE LET best == CHOOSE f \in hits : \A g \in hits :
                             \/ f[2][1][1] < g[2][1][1]
                             \/ f[2][1][1] = g[2][1][1] /\ f[1] <= g[1]
             IN  Some([index |-> best[1] - 1,
                       start |-> best[2][1][1],
                       end |-> best[2][1][2]])

\* str.split(sep, 1) of a string that holds sep: the text before the first sep
\* and the text after it.
split_once(s, sep) ==
    LET i == CHOOSE j \in 1..Len(s) :
                 s[j] = sep /\ \A h \in 1..(j - 1) : s[h] # sep
    IN  <<SubSeq(s, 1, i - 1), SubSeq(s, i + 1, Len(s))>>

\* Lines 86-92: the three prompt patterns, from the text the prompt expect matched.
derive_prompts(matched) ==
    LET cmd_prompt == strip_chars(matched, {" ", "\r", "\n", "\t"})
        stem == SubSeq(cmd_prompt, 1, Len(cmd_prompt) - 1)
    IN  [config_prompt |-> re_escape(stem \o <<"(","c","o","n","f","i","g",")","#">>),
         if_prompt |-> re_escape(stem \o <<"(","c","o","n","f","i","g","-","i","f",")","#">>),
         main_prompt |-> re_escape(cmd_prompt)]

\* The switch prints its lines up to and including the next pagination banner,
\* and the rest when it is paged forward.
PageLength(lines) ==
    IF \E i \in 1..Len(lines) : lines[i] = BannerText
    THEN CHOOSE i \in 1..Len(lines) :
             lines[i] = BannerText /\ \A h \in 1..(i - 1) : lines[h] # BannerText
    ELSE Len(lines)

Page(lines) == Flatten(SubSeq(lines, 1, PageLength(lines)))
AfterPage(lines) == SubSeq(lines, PageLength(lines) + 1, Len(lines))

\* The positions at which the session is blocked in an expect call, and the
\* compiled pattern list of each.
Login == {"user_name", "password", "cmd_prompt"}
Waiting == Login \cup {"first_kv", "loop", "main_prompt"}

Expected(at) ==
    CASE at \in Login -> <<compiled_login[at]>>
      [] at = "first_kv" -> <<compiled_alternatives[3]>>
      [] at = "loop" -> compiled_alternatives
      [] at = "main_prompt" -> <<re_compile(prompts.main_prompt)>>

\* console.expect begins at position `at`, with `text` read and not consumed:
\* it searches that text before it reads any more.
Expect(at, text) ==
    /\ pc' = at
    /\ \E patterns \in {Expected(at)}, unread \in {text} :
           console_match' = expect_list(patterns, unread)

\* The text the expect call has matched, and the text read that follows it
\* (what precedes the match is dropped with it).
Matched == SubSeq(buffer, console_match[1].start, console_match[1].end - 1)
Rest == SubSeq(buffer, console_match[1].end, Len(buffer))

\* Line 181, and the switch's answer to it.
StartIntConfig(interface) ==
    /\ sent' = _sendline(sent, "show int sw " \o interface)
    /\ pending' = pending \o Page(script[interface])
    /\ held' = AfterPage(script[interface])

\* The lists of ports get_port_networks is called with: one port, or two
\* different ports, of those the switch has.
PortLists ==
    {<<port>> : port \in DOMAIN script}
        \cup {ports \in (DOMAIN script) \X (DOMAIN script) : ports[1] # ports[2]}

\* get_port_networks(ports), up to the first expect of the first port's query
\* (lines 132, 164-166, 181-184).
Call_get_port_networks ==
    \E ports \in PortLists :
        /\ CanCall
        /\ Cardinality({i \in 1..Len(sent) :
                           \E label \in Interfaces :
                               sent[i] = "show int sw " \o label \o "\n"})
               + Len(ports) <= MaxQueries
        /\ lastCall' = CallOf("get_port_networks", <<ports>>)
        /\ error' = NoError
        /\ todo' = ports
        /\ port_configs' = <<>>
        /\ networks' = <<>>
        /\ result' = <<>>
        /\ k' = <<>>
        /\ StartIntConfig(ports[1])
        /\ Expect("first_kv", buffer)
        /\ UNCHANGED <<script, buffer, after, sesVars>>

\* Whether a match of the pattern can end with text[e]: the atoms that close
\* the pattern without a quantifier accept the characters up to text[e], as
\* far back as the text reaches.
CanEnd(atoms, text, e) ==
    LET last == atoms[Len(atoms)]
        closing == CHOOSE n \in 0..Len(atoms) :
                       /\ n = Len(atoms) \/ atoms[Len(atoms) - n].rep # "one"
                       /\ \A h \in 0..(n - 1) : atoms[Len(atoms) - h].rep = "one"
    IN  IF last.rep = "one" /\ ~ Accepts(last, text[e]) THEN FALSE
        ELSE \A h \in 0..(closing - 1) :
                 IF h >= e THEN TRUE
                 ELSE Accepts(atoms[Len(atoms) - h], text[e - h])

\* An expect call that has no match reads what the switch has printed, in
\* pieces of any size, and searches again.  A piece after which no match can
\* end leaves the call without a match as it was, and the call reads on: such
\* a piece is taken together with the one that follows it.
ExpectRead ==
    /\ pc \in Waiting
    /\ console_match = None
    /\ \E patterns \in {Expected(pc)}, printed \in {buffer \o pending} :
       \E n \in 1..Len(pending) :
           /\ \/ n = Len(pending)
              \/ \E i \in 1..Len(patterns) :
                     CanEnd(patterns[i], printed, Len(buffer) + n)
           /\ \E read \in {SubSeq(printed, 1, Len(buffer) + n)} :
                  /\ buffer' = read
                  /\ console_match' = expect_list(patterns, read)
           /\ pending' = SubSeq(pending, n + 1, Len(pending))
    /\ UNCHANGED <<pc, error, cmdVars, script, held, after, qryVars, sesVars,
                   exVars>>

\* An expect call that has no match when the console's timeout runs out (the
\* switch is silent, or slow): pexpect raises TIMEOUT, which no caller
\* catches.  A session object stays as it is; connect returns none.
ExpectTimeout ==
    /\ pc \in Waiting
    /\ console_match = None
    /\ error' = Timeout
    /\ pc' = IF pc \in Login THEN "no_session" ELSE "idle"
    /\ UNCHANGED <<cmdVars, chanVars, qryVars, sesVars, exVars>>

\* Lines 184-189: the first Key:Value line, up to the loop's first expect.
FirstKeyValue ==
    /\ pc = "first_kv"
    /\ console_match # None
    /\ after' = Matched
    /\ buffer' = Rest
    /\ \E kv \in {split_once(Matched, ":")} :
           /\ k' = kv[1]
           /\ result' = (kv[1] :> kv[2])
    /\ Expect("loop", Rest)
    /\ UNCHANGED <<error, cmdVars, script, pending, held, todo, sesVars, exVars>>

\* Line 192.
page_forward(s) == _send(s, " ")

\* Line 199: result[k] += console.after.
append_value(d, key, text) == [d EXCEPT ![key] = @ \o text]

\* Lines 189-201: one turn of the loop, up to the expect that follows it.
LoopTurn ==
    /\ pc = "loop"
    /\ console_match # None
    /\ after' = Matched
    /\ buffer' = Rest
    /\ CASE console_match[1].index = 0 ->
              /\ sent' = page_forward(sent)
              /\ pending' = pending \o Page(held)
              /\ held' = AfterPage(held)
              /\ Expect("loop", Rest)
              /\ UNCHANGED <<result, k>>
         [] console_match[1].index = 1 ->
              /\ Expect("main_prompt", Rest)
              /\ UNCHANGED <<sent, pending, held, result, k>>
         [] console_match[1].index = 2 ->
              \E kv \in {split_once(Matched, ":")} :
                  /\ k' = kv[1]
                  /\ result' = (kv[1] :> kv[2]) @@ result
                  /\ Expect("loop", Rest)
                  /\ UNCHANGED <<sent, pending, held>>
         [] console_match[1].index = 3 ->
              /\ result' = append_value(result, k, Matched)
              /\ Expect("loop", Rest)
              /\ UNCHANGED <<sent, pending, held, k>>
    /\ UNCHANGED <<error, lastCall, script, todo, sesVars, exVars>>

\* Lines 201-202, 166-167 and 133-160: the main prompt ends the query of one
\* port; the next port's query starts, or the lists are made and returned.
MainPrompt ==
    /\ pc = "main_prompt"
    /\ console_match # None
    /\ after' = Matched
    /\ buffer' = Rest
    /\ LET configs == (todo[1] :> result) @@ port_configs
       IN  /\ port_configs' = configs
           /\ todo' = Tail(todo)
           /\ IF Tail(todo) # <<>>
              THEN /\ StartIntConfig(todo[2])
                   /\ Expect("first_kv", Rest)
                   /\ UNCHANGED <<error, networks>>
              ELSE /\ \E returned \in {get_port_networks(configs)} :
                          /\ error' = returned.raised
                          /\ networks' = returned.value
                   /\ pc' = "idle"
                   /\ console_match' = None
                   /\ UNCHANGED <<sent, pending, held>>
    /\ UNCHANGED <<lastCall, script, result, k, sesVars>>

\* The lines of the switch's answer to `show int sw`.
KeyValueLines == {<<"A",":","1","\r","\n">>, <<"B",":"," ","2","\r","\n">>}
ContinuationLines == {<<" ","d",":","e","\r","\n">>}
BodyLines == KeyValueLines \cup ContinuationLines \cup {BannerText}

RECURSIVE SeqsUpTo(_, _)
SeqsUpTo(S, n) ==
    IF n = 0 THEN {<<>>}
    ELSE LET shorter == SeqsUpTo(S, n - 1)
         IN  shorter \cup {Append(t, x) : t \in shorter, x \in S}

\* An answer starts with a Key:Value line (the switch pages after a screen of
\* output, never before the first line), holds at most MaxLines lines, and
\* ends with the end marker and the prompt, unless the switch falls silent:
\* before the end marker, or before its first line.
Answers ==
    {<<>>} \cup
    {<<first>> \o more \o tail :
        first \in KeyValueLines,
        more \in SeqsUpTo(BodyLines, MaxLines - 1),
        tail \in {<<EndMarker, SwitchPrompt>>, <<>>}}

\* A session just made by connect, on a switch whose prompt is SwitchPrompt.
InitQuery ==
    /\ pc = "idle"
    /\ error = NoError
    /\ sent = <<>>
    /\ lastCall = NoCall
    /\ \E answer \in Answers : script = [label \in {"gi1/0/1"} |-> answer]
    /\ pending = <<>>
    /\ held = <<>>
    /\ buffer = <<>>
    /\ console_match = <<>>
    /\ after = <<>>
    /\ result = <<>>
    /\ k = <<>>
    /\ todo = <<>>
    /\ prompts = derive_prompts(<<"\r", "\n">> \o SwitchPrompt)
    /\ creds = <<>>
    /\ port_configs = <<>>
    /\ networks = <<>>

NextQuery ==
    \/ Call_get_port_networks
    \/ ExpectRead
    \/ ExpectTimeout
    \/ FirstKeyValue
    \/ LoopTurn
    \/ MainPrompt
    \/ Call_exit_if_prompt

SpecQuery == InitQuery /\ [][NextQuery]_vars

(***************************************************************************)
(* What a transcript says, line by line: the reference the claims about    *)
(* _int_config are stated against.                                         *)
(***************************************************************************)
NotBanner(line) == line # BannerText
IsContinuation(line) == line # BannerText /\ line[1] = " "
IsKeyValue(line) ==
    /\ line \notin {BannerText, EndMarker, SwitchPrompt}
    /\ line[1] \notin Whitespace
    /\ \E i \in 1..Len(line) : line[i] = ":"

FirstColon(line) ==
    CHOOSE i \in 1..Len(line) :
        line[i] = ":" /\ \A h \in 1..(i - 1) : line[h] # ":"

FieldKey(line) == SubSeq(line, 1, FirstColon(line) - 1)
FieldValue(line) == SubSeq(line, FirstColon(line) + 1, Len(line))

\* The line after the run of continuation lines (and banners) that follows
\* lines[i].
RunEnd(lines, i) ==
    CHOOSE j \in (i + 1)..(Len(lines) + 1) :
        /\ j = Len(lines) + 1
               \/ ~ (IsContinuation(lines[j]) \/ lines[j] = BannerText)
        /\ \A h \in (i + 1)..(j - 1) :
               IsContinuation(lines[h]) \/ lines[h] = BannerText

\* The value of the field that the Key:Value line lines[i] starts: what
\* follows its colon, and its continuation lines, in order.
FieldOf(lines, i) ==
    FieldValue(lines[i]) \o
        Flatten(SelectSeq(SubSeq(lines, i + 1, RunEnd(lines, i) - 1),
                          IsContinuation))

LastOfKey(lines, i) ==
    /\ IsKeyValue(lines[i])
    /\ \A j \in (i + 1)..Len(lines) :
           IsKeyValue(lines[j]) => FieldKey(lines[j]) # FieldKey(lines[i])

\* d maps every key of the lines to the field its last Key:Value line starts.
MapIs(d, lines) ==
    /\ DOMAIN d = {FieldKey(lines[i]) :
                      i \in {j \in 1..Len(lines) : IsKeyValue(lines[j])}}
    /\ \A i \in 1..Len(lines) :
           LastOfKey(lines, i) => d[FieldKey(lines[i])] = FieldOf(lines, i)

\* d holds every field of the lines, with its value.
HoldsFields(d, lines) ==
    \A i \in 1..Len(lines) :
        LastOfKey(lines, i) =>
            /\ FieldKey(lines[i]) \in DOMAIN d
            /\ d[FieldKey(lines[i])] = FieldOf(lines, i)

\* Every continuation line of the lines follows a Key:Value line, in the run
\* of continuation lines (and banners) after it.
ContinuationsFollowKeys(lines) ==
    \A j \in 1..Len(lines) :
        IsContinuation(lines[j]) =>
            \E i \in 1..(j - 1) : IsKeyValue(lines[i]) /\ j < RunEnd(lines, i)

\* The console had taken all that the switch had printed when the call in
\* progress began.
Synchronised == lastCall.unread = <<>>

\* What get_port_networks has written since it was called, after `banners`
\* pagination banners.
QueryWrites(banners) ==
    <<"show int sw " \o lastCall.args[1][1] \o "\n">>
        \o [i \in 1..banners |-> " "]

BannersIn(lines) == Len(SelectSeq(lines, LAMBDA line : line = BannerText))

(***************************************************************************)
(* C6. During an interface-status query every pagination banner in the     *)
(* switch's output makes the query write one single space, with no line    *)
(* terminator, and the loop goes on: the query has written its show line   *)
(* and then one " " per banner taken, nothing else; and the map of a       *)
(* finished query holds every Key:Value field of the transcript with the   *)
(* value it has in the transcript without the banners.                     *)
(***************************************************************************)
C6_PageForward ==
    lastCall.op = "get_port_networks" =>
        \E n \in Handled :
            /\ sent = lastCall.before
                          \o QueryWrites(BannersIn(SubSeq(Shown, 1, n)))
            /\ pc = "idle" =>
                   \A port \in DOMAIN port_configs :
                       HoldsFields(port_configs[port],
                                   SelectSeq(Transcript, NotBanner))

\* C6 for a query that begins with nothing unread: it holds, the map being
\* the map of the transcript without its banners, and the transcript taken
\* to its end.
PageForward_Synchronised ==
    lastCall.op = "get_port_networks" /\ Synchronised =>
        \E n \in Handled :
            /\ sent = lastCall.before
                          \o QueryWrites(BannersIn(SubSeq(Shown, 1, n)))
            /\ pc = "idle" /\ error # Timeout =>
                   /\ port_configs # <<>>
                   /\ n = Len(Transcript)
                   /\ held = <<>>
                   /\ \A port \in DOMAIN port_configs :
                          MapIs(port_configs[port],
                                SelectSeq(Transcript, NotBanner))

(***************************************************************************)
(* C7. During an interface-status query each continuation line (a line     *)
(* that starts with a space) is appended as it is, in the order of         *)
(* arrival, to the value of the key of the Key:Value line before its run,  *)
(* and the value stays as it is while other keys are parsed: at every turn *)
(* of the loop every continuation line taken follows a Key:Value line      *)
(* taken, and the dictionary holds, for every key taken so far, the text   *)
(* after the colon of its last Key:Value line followed by that line's      *)
(* continuation lines.                                                     *)
(***************************************************************************)
C7_Continuations ==
    pc \in {"loop", "main_prompt"} =>
        \E n \in Handled :
            /\ ContinuationsFollowKeys(SubSeq(Shown, 1, n))
            /\ HoldsFields(result, SubSeq(Shown, 1, n))

\* C7 for a query that begins with nothing unread: it holds, the dictionary
\* being the map of the lines taken.
Continuations_Synchronised ==
    pc \in {"loop", "main_prompt"} /\ Synchronised =>
        \E n \in Handled :
            /\ ContinuationsFollowKeys(SubSeq(Shown, 1, n))
            /\ MapIs(result, SubSeq(Shown, 1, n))

\* A query that begins with nothing unread has taken a key with a
\* continuation line, and another key after it.
Continuations_Reached ==
    /\ pc = "main_prompt"
    /\ Synchronised
    /\ Len(Transcript) >= 3
    /\ SubSeq(Transcript, 1, 3)
           = << <<"A", ":", "1", "\r", "\n">>,
                <<" ", "d", ":", "e", "\r", "\n">>,
                <<"B", ":", " ", "2", "\r", "\n">> >>
    /\ result[<<"A">>] = <<"1", "\r", "\n", " ", "d", ":", "e", "\r", "\n">>
    /\ result[<<"B">>] = <<" ", "2", "\r", "\n">>

\* alternatives[i - 1] matches the text from text[start] on.
MatchesAt(i, text, start) ==
    re_match_at(compiled_alternatives[i], 1, text, start) # 0

\* The position in alternatives (from 1) of the pattern an expect call of the
\* query has matched.
Chosen == IF pc = "first_kv" THEN 3 ELSE console_match[1].index + 1

KeyMore == <<"M","o","r","e">>
KeyRules == SubSeq(EndMarker, 1, Len(EndMarker) - 3)

(***************************************************************************)
(* C16. When the text an expect call of the query takes next can be        *)
(* matched by more than one of the four patterns, it is taken by the one   *)
(* listed first: no pattern listed before the one that has matched matches *)
(* from the same character on.  Consequently no returned map has a key     *)
(* `More` or `Classification rules`.                                       *)
(***************************************************************************)
C16_PatternPriority ==
    lastCall.op = "get_port_networks" =>
        /\ pc \in {"first_kv", "loop"} /\ console_match # None =>
               \A i \in 1..(Chosen - 1) :
                   ~ MatchesAt(i, buffer, console_match[1].start)
        /\ \A port \in DOMAIN port_configs :
               /\ KeyMore \notin DOMAIN port_configs[port]
               /\ KeyRules \notin DOMAIN port_configs[port]

\* C16 holds of the queries that begin with nothing unread.
Priority_Synchronised == Synchronised => C16_PatternPriority

\* The end marker, that the Key:Value pattern matches too, has been taken as
\* the end marker.
Priority_Reached ==
    /\ Synchronised
    /\ lastCall.op = "get_port_networks"
    /\ pc = "loop"
    /\ console_match # None
    /\ Chosen = 2
    /\ MatchesAt(3, buffer, console_match[1].start)

(***************************************************************************)
(* C8. A query during which the switch sends nothing that matches within   *)
(* the wait bound fails (the spec names the failure ConsoleProtocolError,  *)
(* the code raises pexpect.TIMEOUT), returns no partial map, and leaves    *)
(* the session unusable: no later operation on the session is accepted.    *)
(***************************************************************************)
C8_TimeoutEndsSession ==
    /\ error = Timeout => networks = <<>> /\ port_configs = <<>>
    /\ lastCall.prior # Timeout

(***************************************************************************)
(* connect: the login handshake and the derivation of the prompt patterns. *)
(* The switch prints script.telnet when telnet reaches it, script.username *)
(* once it has received a first line, and script.password once it has      *)
(* received a second one.                                                  *)
(***************************************************************************)
MaxPrompt == 2

\* Lines 72-74: connect, up to its first expect.
Call_connect ==
    /\ pc = "unconnected"
    /\ lastCall.n < MaxCalls
    /\ lastCall' = CallOf("connect", <<>>)
    /\ error' = NoError
    /\ pending' = pending \o script.telnet
    /\ Expect("user_name", buffer)
    /\ UNCHANGED <<sent, script, held, buffer, after, qryVars, sesVars, exVars>>

\* Lines 74-76: the username challenge is there.
UserName ==
    /\ pc = "user_name"
    /\ console_match # None
    /\ after' = Matched
    /\ buffer' = Rest
    /\ sent' = _sendline(sent, creds.username)
    /\ pending' = pending \o script.username
    /\ Expect("password", Rest)
    /\ UNCHANGED <<error, lastCall, script, held, qryVars, sesVars, exVars>>

\* Lines 76-85: the password challenge is there.
Password ==
    /\ pc = "password"
    /\ console_match # None
    /\ after' = Matched
    /\ buffer' = Rest
    /\ sent' = _sendline(sent, creds.password)
    /\ pending' = pending \o script.password
    /\ Expect("cmd_prompt", Rest)
    /\ UNCHANGED <<error, lastCall, script, held, qryVars, sesVars, exVars>>

\* Lines 85-98: the prompt is there; the session is made and returned.
CmdPrompt ==
    /\ pc = "cmd_prompt"
    /\ console_match # None
    /\ after' = Matched
    /\ buffer' = Rest
    /\ prompts' = derive_prompts(Matched)
    /\ pc' = "idle"
    /\ console_match' = None
    /\ UNCHANGED <<error, cmdVars, script, pending, held, qryVars, creds,
                   exVars>>

\* The switch's prompts, and what it prints once logged in: blank lines and
\* the prompt, with or without a notice line before them.
PromptAlphabet == {"s", ".", "*"}
PromptStems == SeqsUpTo(PromptAlphabet, MaxPrompt) \ {<<>>}
NoticeLine == <<"u","n","i","t"," ","#","1","\r","\n">>

Greetings ==
    {<<>>} \cup
    {notice \o <<"\r", "\n">> \o stem \o <<"#">> :
        notice \in {<<"\r", "\n">>, <<"\r", "\n">> \o NoticeLine},
        stem \in PromptStems}

Challenges ==
    {<<>>,
     <<"\r", "\n">> \o <<"U","s","e","r"," ","N","a","m","e",":">>,
     <<"\r", "\n">> \o <<"P","a","s","s","w","o","r","d",":">>}

\* Before connect: a switch record, and no session.
InitConnect ==
    /\ pc = "unconnected"
    /\ error = NoError
    /\ sent = <<>>
    /\ lastCall = NoCall
    /\ \E first \in Challenges, second \in Challenges, third \in Greetings :
           script = [telnet |-> first, username |-> second, password |-> third]
    /\ pending = <<>>
    /\ held = <<>>
    /\ buffer = <<>>
    /\ console_match = <<>>
    /\ after = <<>>
    /\ result = <<>>
    /\ k = <<>>
    /\ todo = <<>>
    /\ prompts = <<>>
    /\ creds \in {[username |-> "admin", password |-> "pw"],
                  [username |-> "op", password |-> ""]}
    /\ port_configs = <<>>
    /\ networks = <<>>

NextConnect ==
    \/ Call_connect
    \/ ExpectRead
    \/ ExpectTimeout
    \/ UserName
    \/ Password
    \/ CmdPrompt

SpecConnect == InitConnect /\ [][NextConnect]_vars

(***************************************************************************)
(* disconnect, after connect.  The switch prints script.logout when it     *)
(* takes the line that disconnect writes: the end of the stream when it    *)
(* logs the session out, nothing when it does not.                         *)
(***************************************************************************)
EndOfStream == "EOF"

\* A disconnect that writes `quit`.
disconnect_quit(s) == _sendline(s, "quit")

\* Line 126.
disconnect(s) == _sendline(s, "exit")

\* Lines 125-127: disconnect, up to its expect.
Call_disconnect ==
    /\ CanCall
    /\ sent' = disconnect(sent)
    /\ lastCall' = CallOf("disconnect", <<>>)
    /\ error' = NoError
    /\ pending' = pending \o (IF sent' = <<creds.username \o "\n",
                                           creds.password \o "\n", "exit\n">>
                              THEN script.logout ELSE <<>>)
    /\ pc' = "eof"
    /\ console_match' = None
    /\ UNCHANGED <<script, held, buffer, after, qryVars, sesVars, exVars>>

\* Lines 127-128: console.expect(pexpect.EOF) reads to the end of the stream;
\* disconnect returns.
Disconnected ==
    /\ pc = "eof"
    /\ pending # <<>>
    /\ pending[Len(pending)] = EndOfStream
    /\ pc' = "disconnected"
    /\ pending' = <<>>
    /\ buffer' = <<>>
    /\ UNCHANGED <<error, cmdVars, script, held, console_match, after, qryVars,
                   sesVars, exVars>>

\* Line 127: the stream does not end within the console's timeout;
\* pexpect.TIMEOUT leaves disconnect.
DisconnectTimeout ==
    /\ pc = "eof"
    /\ \A i \in 1..Len(pending) : pending[i] # EndOfStream
    /\ error' = Timeout
    /\ pc' = "idle"
    /\ UNCHANGED <<cmdVars, chanVars, qryVars, sesVars, exVars>>

\* The switch has printed all it has to print, and it is not what the expect
\* call waits for: the console's timeout runs out.
ExpectSilence == pending = <<>> /\ ExpectTimeout

\* Before connect, on a switch that is never slow: what it prints, it prints
\* within the console's timeout.
InitSession ==
    /\ pc = "unconnected"
    /\ error = NoError
    /\ sent = <<>>
    /\ lastCall = NoCall
    /\ \E first \in Challenges, second \in Challenges, third \in Greetings,
          last \in {<<>>, <<EndOfStream>>} :
           script = [telnet |-> first, username |-> second, password |-> third,
                     logout |-> last]
    /\ pending = <<>>
    /\ held = <<>>
    /\ buffer = <<>>
    /\ console_match = <<>>
    /\ after = <<>>
    /\ result = <<>>
    /\ k = <<>>
    /\ todo = <<>>
    /\ prompts = <<>>
    /\ creds \in {[username |-> "admin", password |-> "pw"],
                  [username |-> "op", password |-> ""]}
    /\ port_configs = <<>>
    /\ networks = <<>>

NextSession ==
    \/ Call_connect
    \/ ExpectRead
    \/ ExpectSilence
    \/ UserName
    \/ Password
    \/ CmdPrompt
    \/ Call_disconnect
    \/ Disconnected
    \/ DisconnectTimeout

SpecSession == InitSession /\ [][NextSession]_vars

\* The switch asks for the username and then for the password, prints a
\* prompt, and logs the session out when told to.
Answering ==
    /\ script.telnet = <<"\r", "\n">> \o <<"U","s","e","r"," ","N","a","m","e",":">>
    /\ script.username = <<"\r", "\n">> \o <<"P","a","s","s","w","o","r","d",":">>
    /\ script.password # <<>>
    /\ script.logout = <<EndOfStream>>

(***************************************************************************)
(* C11. For every credentials record, on a switch that answers, connect    *)
(* followed at once by disconnect completes: no call raises, the session   *)
(* never comes to a stop before disconnect has returned, disconnect        *)
(* returns after it has written one `exit` line and read to the end of the *)
(* stream, and all that is written to the console is the username line,    *)
(* the password line and `exit`, in this order; no VLAN or configuration   *)
(* line is written.                                                        *)
(***************************************************************************)
C11_ConnectDisconnect ==
    Answering =>
        LET lines == <<creds.username \o "\n", creds.password \o "\n", "exit\n">>
        IN  /\ error = NoError
            /\ Len(sent) <= 3 /\ sent = SubSeq(lines, 1, Len(sent))
            /\ pc = "eof" => sent = lines
            /\ pc = "disconnected" => sent = lines /\ pending = <<>>
            /\ pc # "disconnected" => ENABLED NextSession

\* connect and disconnect have completed on a switch that answers.
C11_Witness ==
    /\ Answering
    /\ pc = "disconnected"
    /\ lastCall.calls = << <<"connect", <<>> >>, <<"disconnect", <<>> >> >>
    /\ Len(sent) = 3

\* What the switch has printed during connect, and the part of it read.
LoginPrinted ==
    script.telnet
        \o (IF Len(sent) >= 1 THEN script.username ELSE <<>>)
        \o (IF Len(sent) >= 2 THEN script.password ELSE <<>>)

LoginRead == SubSeq(LoginPrinted, 1, Len(LoginPrinted) - Len(pending))

\* The text holds the literal from position i on.
OccursAt(literal, text, i) ==
    /\ i + Len(literal) - 1 <= Len(text)
    /\ SubSeq(text, i, i + Len(literal) - 1) = literal

UserNameText == <<"U","s","e","r"," ","N","a","m","e",":">>
PasswordText == <<"P","a","s","s","w","o","r","d",":">>

\* The order of the handshake: connect writes nothing but the username line
\* and then the password line, the username only once `User Name:` has been
\* read, and the password only once `Password:` has been read after it.
LoginInOrder ==
    /\ Len(sent) <= 2
    /\ Len(sent) >= 1 =>
           /\ sent[1] = creds.username \o "\n"
           /\ \E i \in 1..Len(LoginRead) : OccursAt(UserNameText, LoginRead, i)
    /\ Len(sent) >= 2 =>
           /\ sent[2] = creds.password \o "\n"
           /\ \E i \in 1..Len(LoginRead), j \in 1..Len(LoginRead) :
                  /\ OccursAt(UserNameText, LoginRead, i)
                  /\ j >= i + Len(UserNameText)
                  /\ OccursAt(PasswordText, LoginRead, j)

\* connect has failed and has returned no session, with no credential written
\* for a challenge that was not read, and nothing written or read since.
LoginFailed(raised) ==
    /\ error = raised
    /\ prompts = None
    /\ ~ ENABLED NextConnect

\* The error the spec names for a failed handshake; the code defines none of
\* that name.
ConnectionError == "ConnectionError"

(***************************************************************************)
(* What the code keeps of C9.  connect sends the username only after       *)
(* `User Name:` has been read and the password only after `Password:` has  *)
(* been read; when a challenge is not read before the console's timeout,   *)
(* connect fails with pexpect.TIMEOUT, returns no session, tries nothing   *)
(* again, and has not sent the credential of a challenge that was not read.*)
(***************************************************************************)
C9_LoginOrder ==
    lastCall.op = "connect" =>
        /\ LoginInOrder
        /\ pc = "no_session" => LoginFailed(Timeout)

\* connect has failed waiting for `Password:`, with the username sent and the
\* password not.
C9_Witness ==
    /\ pc = "no_session"
    /\ sent = <<creds.username \o "\n">>
    /\ script.username = <<>>

(***************************************************************************)
(* C9.  connect sends the username only after `User Name:` has been        *)
(* observed and the password only after `Password:` has been observed; if  *)
(* either challenge is not observed within the bounded wait, connect fails *)
(* with ConnectionError, returns no session, performs no retry, and never  *)
(* sends the credential belonging to the unobserved challenge.             *)
(***************************************************************************)
C9_ConnectionError ==
    lastCall.op = "connect" =>
        /\ LoginInOrder
        /\ pc = "no_session" => LoginFailed(ConnectionError)

\* The prompt line of what the switch prints once logged in: the text after
\* its last line terminator.
PromptLine(text) ==
    LET breaks == {i \in 1..Len(text) : text[i] \in {"\r", "\n"}}
        last == IF breaks = {} THEN 0
                ELSE CHOOSE i \in breaks : \A j \in breaks : j <= i
    IN  SubSeq(text, last + 1, Len(text))

\* The pattern matches the text, all of it, and no other text: it is one
\* atom per character of the text, each taking that character only.
MatchesOnly(pattern, text) ==
    LET atoms == re_compile(pattern)
    IN  /\ Len(atoms) = Len(text)
        /\ \A i \in 1..Len(atoms) :
               /\ atoms[i].rep = "one"
               /\ ~ atoms[i].atom.negated
               /\ atoms[i].atom.chars = {text[i]}

(***************************************************************************)
(* C10. For every post-login banner whose prompt line is P#, whatever P    *)
(* is, connect stores a main_prompt that matches exactly P#, a             *)
(* config_prompt that matches exactly P(config)# and an if_prompt that     *)
(* matches exactly P(config-if)#, every character of P standing for        *)
(* itself, and the three patterns differ from one another.                 *)
(***************************************************************************)
C10_PromptPatterns ==
    pc = "idle" /\ lastCall.op = "connect" =>
        LET line == PromptLine(script.password)
            P == SubSeq(line, 1, Len(line) - 1)
        IN  /\ MatchesOnly(prompts.main_prompt, P \o <<"#">>)
            /\ MatchesOnly(prompts.config_prompt,
                           P \o <<"(","c","o","n","f","i","g",")","#">>)
            /\ MatchesOnly(prompts.if_prompt,
                           P \o <<"(","c","o","n","f","i","g","-","i","f",")","#">>)
            /\ prompts.main_prompt # prompts.config_prompt
            /\ prompts.main_prompt # prompts.if_prompt
            /\ prompts.config_prompt # prompts.if_prompt

(***************************************************************************)
(* Queries on a session as connect leaves it, and of a switch that prints  *)
(* text before the first Key:Value line of its answer.                     *)
(***************************************************************************)
NativeLine == KeyNative \o <<":">> \o Sample_7
TrunkLine == KeyTrunk \o <<":", " ", "1", ",", "7", "\r", "\n">>
OtherLine == <<"A", ":", "1", "\r", "\n">>
BlankLine == <<"\r", "\n">>

LabelText(label) ==
    CASE label = "gi1/0/1" -> <<"g","i","1","/","0","/","1">>
      [] label = "gi1/0/2" -> <<"g","i","1","/","0","/","2">>

\* The switch's echo of the line that StartIntConfig writes.
ShowEcho(label) ==
    <<"s","h","o","w"," ","i","n","t"," ","s","w"," ">> \o LabelText(label)
        \o <<"\r", "\n">>

\* What the switch prints before the first Key:Value line of an answer:
\* nothing, the echo of the command, or the echo and a blank line.
PreambleKinds == {"none", "echo", "echo_blank"}
Preamble(kind, label) ==
    CASE kind = "none" -> <<>>
      [] kind = "echo" -> <<ShowEcho(label)>>
      [] kind = "echo_blank" -> <<ShowEcho(label), BlankLine>>

\* The Key:Value, continuation and banner lines of the answers.
Bodies ==
    {<<NativeLine, TrunkLine>>,
     <<OtherLine, NativeLine, TrunkLine>>,
     <<TrunkLine, BannerText, NativeLine>>,
     <<NativeLine, <<" ", "d", ":", "e", "\r", "\n">>, TrunkLine>>,
     <<OtherLine>>}

\* What the switch prints when the connection is made: its prompt, or a
\* notice line and its prompt.
SessionGreetings ==
    {<<"\r", "\n">> \o SwitchPrompt,
     <<"\r", "\n">> \o NoticeLine \o <<"\r", "\n">> \o SwitchPrompt}

\* The calls made on the session before its queries: none, or an interface
\* context entered and left again.
CommandRuns ==
    {<<>>,
     << <<"enter_if_prompt", <<"gi1/0/1">> >>, <<"exit_if_prompt", <<>> >> >>}

\* The lines a run of calls has written.
RECURSIVE Written(_)
Written(calls) ==
    IF calls = <<>> THEN <<>>
    ELSE LET call == calls[Len(calls)]
             before == Written(SubSeq(calls, 1, Len(calls) - 1))
         IN  CASE call[1] = "enter_if_prompt" -> enter_if_prompt(before, call[2][1])
               [] call[1] = "exit_if_prompt" -> exit_if_prompt(before)

\* The switch answers every line written to it with the prompt of the mode it
\* is in then (it does not echo the line): the prompts are those of lines
\* 89-92.
PromptText(mode) ==
    CASE mode = "main" -> SwitchPrompt
      [] mode = "config" ->
             SubSeq(SwitchPrompt, 1, Len(SwitchPrompt) - 1)
                 \o <<"(","c","o","n","f","i","g",")","#">>
      [] mode = "interface" ->
             SubSeq(SwitchPrompt, 1, Len(SwitchPrompt) - 1)
                 \o <<"(","c","o","n","f","i","g","-","i","f",")","#">>
      [] OTHER -> <<>>

Replies(lines) ==
    Flatten([i \in 1..Len(lines) |->
                <<"\r", "\n">>
                    \o PromptText(ShellMode("main", SubSeq(lines, 1, i)))])

\* The session connect returns (lines 85-98) when its last expect has read
\* the whole greeting: the prompts are derived from what the expect matched,
\* and the text after the match stays read and not consumed.  The calls of a
\* command run have been made on it, and the switch's replies to them are
\* printed and not read (lines 100-106 read nothing).
InitPreamble ==
    /\ pc = "idle"
    /\ error = NoError
    /\ held = <<>>
    /\ \E body \in Bodies, kind \in PreambleKinds :
           script = [label \in {"gi1/0/1"} |->
                        Preamble(kind, label) \o body \o <<EndMarker, SwitchPrompt>>]
    /\ \E greeting \in SessionGreetings :
       \E m \in {expect_list(<<compiled_login.cmd_prompt>>, greeting)} :
           /\ prompts = derive_prompts(SubSeq(greeting, m[1].start, m[1].end - 1))
           /\ buffer = SubSeq(greeting, m[1].end, Len(greeting))
    /\ \E run \in CommandRuns :
           /\ sent = Written(run)
           /\ pending = Replies(Written(run))
           /\ lastCall =
                  IF run = <<>> THEN NoCall
                  ELSE LET earlier == Written(SubSeq(run, 1, Len(run) - 1))
                           text == buffer \o Replies(earlier)
                       IN  [op |-> run[Len(run)][1],
                            args |-> run[Len(run)][2],
                            before |-> earlier,
                            prior |-> NoError,
                            unread |-> IF text = <<>> THEN <<>> ELSE <<text>>,
                            calls |-> run,
                            n |-> Len(run)]
    /\ console_match = <<>>
    /\ after = <<>>
    /\ result = <<>>
    /\ k = <<>>
    /\ todo = <<>>
    /\ creds = <<>>
    /\ port_configs = <<>>
    /\ networks = <<>>

NextPreamble ==
    \/ Call_get_port_networks
    \/ ExpectRead
    \/ ExpectTimeout
    \/ FirstKeyValue
    \/ LoopTurn
    \/ MainPrompt

SpecPreamble == InitPreamble /\ [][NextPreamble]_vars

\* A transcript of the form C15 is about: text without a Key:Value line
\* first, then Key:Value, continuation and banner lines, of which the first
\* is a Key:Value line, then the end marker, then the main prompt.
IsPreamble(line) ==
    /\ line \notin {BannerText, EndMarker}
    /\ \A i \in 1..Len(line) : line[i] # ":"

WellFormed(lines) ==
    /\ Len(lines) >= 3
    /\ lines[Len(lines)] = SwitchPrompt
    /\ lines[Len(lines) - 1] = EndMarker
    /\ \E p \in 0..(Len(lines) - 3) :
           /\ \A i \in 1..p : IsPreamble(lines[i])
           /\ IsKeyValue(lines[p + 1])
           /\ \A i \in (p + 2)..(Len(lines) - 2) :
                  \/ IsKeyValue(lines[i])
                  \/ IsContinuation(lines[i])
                  \/ lines[i] = BannerText

\* The query is in an expect call that has no match, and the switch has
\* printed nothing the call has not read: the call can only time out.
Starved ==
    /\ pc \in {"first_kv", "loop", "main_prompt"}
    /\ console_match = None
    /\ pending = <<>>

\* The main prompt the switch prints is the one the session expects.
PromptDerived == prompts.main_prompt = re_escape(SwitchPrompt)

(***************************************************************************)
(* C15. On a transcript of that form the query terminates: it is never in  *)
(* an expect call that nothing the switch has printed or will print can    *)
(* end.  The loop is left when the end marker has been taken and not       *)
(* before, and the query returns with the main prompt taken and nothing of *)
(* the transcript unread.                                                  *)
(***************************************************************************)
C15_QueryResynchronises ==
    lastCall.op = "get_port_networks" /\ WellFormed(Transcript) =>
        /\ ~ Starved
        /\ pc = "loop" => \A n \in Handled : n < Len(Transcript) - 1
        /\ pc = "main_prompt" => Len(Transcript) - 1 \in Handled
        /\ pc = "idle" /\ error # Timeout =>
               held = <<>> /\ pending = <<>> /\ buffer = <<>>

\* C15 holds of the sessions whose main prompt was derived from the prompt.
Resynchronises_PromptDerived == PromptDerived => C15_QueryResynchronises

Resynchronises_Reached ==
    /\ PromptDerived
    /\ lastCall.op = "get_port_networks"
    /\ WellFormed(Transcript)
    /\ IsPreamble(Transcript[1])
    /\ pc = "idle"
    /\ error # Timeout

\* The first Key:Value line of the lines is lines[i].
FirstKeyValueAt(lines, i) ==
    /\ i \in 1..Len(lines)
    /\ IsKeyValue(lines[i])
    /\ \A h \in 1..(i - 1) : ~ IsKeyValue(lines[h])

IsPrefix(s, t) == Len(s) <= Len(t) /\ SubSeq(t, 1, Len(s)) = s

\* Every key of d is the key of a Key:Value line of the lines, and its value
\* begins with what follows the colon of such a line.
FromKeyValueLines(d, lines) ==
    \A key \in DOMAIN d :
        \E i \in 1..Len(lines) :
            /\ IsKeyValue(lines[i])
            /\ key = FieldKey(lines[i])
            /\ IsPrefix(FieldValue(lines[i]), d[key])

(***************************************************************************)
(* C17. After the show line is written the first entry of the map comes    *)
(* from the first Key:Value line of the output, and no text that precedes  *)
(* that line (the echo of the command, blank lines, leftover prompts) is   *)
(* in a key or a value of the map, while it is built and when it is        *)
(* returned.                                                               *)
(***************************************************************************)
C17_PreambleSkipped ==
    lastCall.op = "get_port_networks" =>
        /\ pc \in {"loop", "main_prompt"} =>
               /\ \E i \in 1..Len(Transcript) :
                      /\ FirstKeyValueAt(Transcript, i)
                      /\ FieldKey(Transcript[i]) \in DOMAIN result
               /\ FromKeyValueLines(result, Transcript)
        /\ \A port \in DOMAIN port_configs :
               FromKeyValueLines(port_configs[port], Transcript)

\* _int_config on a console that has nothing unread when the show line is
\* written and reads the whole of `text` in answer (lines 184-202): the map,
\* or no map when an expect finds no match in the text.
RECURSIVE int_config_loop(_, _, _)
int_config_loop(text, result_, k_) ==
    LET m == expect_list(compiled_alternatives, text)
    IN  IF m = None THEN None
        ELSE LET matched == SubSeq(text, m[1].start, m[1].end - 1)
                 rest == SubSeq(text, m[1].end, Len(text))
             IN  CASE m[1].index = 0 -> int_config_loop(rest, result_, k_)
                   [] m[1].index = 1 ->
                          IF expect_list(<<re_compile(prompts.main_prompt)>>, rest) = None
                          THEN None
                          ELSE Some(result_)
                   [] m[1].index = 2 ->
                          LET kv == split_once(matched, ":")
                          IN  int_config_loop(rest, (kv[1] :> kv[2]) @@ result_, kv[1])
                   [] m[1].index = 3 ->
                          int_config_loop(rest, append_value(result_, k_, matched), k_)

int_config_fresh(text) ==
    LET m == expect_list(<<compiled_alternatives[3]>>, text)
    IN  IF m = None THEN None
        ELSE LET kv == split_once(SubSeq(text, m[1].start, m[1].end - 1), ":")
             IN  int_config_loop(SubSeq(text, m[1].end, Len(text)),
                                 (kv[1] :> kv[2]), kv[1])

\* What get_port_networks(ports) gives on such a console.
FreshResult(ports) ==
    IF \E i \in 1..Len(ports) : int_config_fresh(Flatten(script[ports[i]])) = None
    THEN [raised |-> Timeout, value |-> <<>>]
    ELSE get_port_networks([port \in {ports[i] : i \in 1..Len(ports)} |->
                               int_config_fresh(Flatten(script[port]))[1]])

(***************************************************************************)
(* C20. The replies of the switch to the calls made before a query are     *)
(* unread when the query begins; whatever these calls were, a              *)
(* get_port_networks that returns gives the lists that a session gives on  *)
(* which no call was made before and which gets the same output.           *)
(***************************************************************************)
C20_CommandsDoNotMatter ==
    lastCall.op = "get_port_networks" /\ pc = "idle" /\ error # Timeout =>
        /\ error = FreshResult(lastCall.args[1]).raised
        /\ networks = FreshResult(lastCall.args[1]).value

\* C20 holds of the queries that begin with nothing unread.
Fresh_Synchronised == Synchronised => C20_CommandsDoNotMatter

(***************************************************************************)
(* get_port_networks on several ports: a switch with two ports, whose      *)
(* answers differ.                                                         *)
(***************************************************************************)
NativeLine5 == KeyNative \o <<":", " ", "5", "\r", "\n">>
TrunkLine5 == KeyTrunk \o <<":", " ", "5", "\r", "\n">>

FirstPortBodies ==
    {<<NativeLine, TrunkLine>>,
     <<NativeLine, BannerText, TrunkLine>>}
SecondPortBodies ==
    {<<NativeLine5, TrunkLine5>>,
     <<OtherLine>>}

\* A session just made by connect, on a switch whose prompt is SwitchPrompt.
InitBatch ==
    /\ pc = "idle"
    /\ error = NoError
    /\ sent = <<>>
    /\ lastCall = NoCall
    /\ \E first \in FirstPortBodies, second \in SecondPortBodies :
           script = ("gi1/0/1" :> first \o <<EndMarker, SwitchPrompt>>)
                    @@ ("gi1/0/2" :> second \o <<EndMarker, SwitchPrompt>>)
    /\ pending = <<>>
    /\ held = <<>>
    /\ buffer = <<>>
    /\ console_match = <<>>
    /\ after = <<>>
    /\ result = <<>>
    /\ k = <<>>
    /\ todo = <<>>
    /\ prompts = derive_prompts(<<"\r", "\n">> \o SwitchPrompt)
    /\ creds = <<>>
    /\ port_configs = <<>>
    /\ networks = <<>>

NextBatch ==
    \/ Call_get_port_networks
    \/ ExpectRead
    \/ ExpectTimeout
    \/ FirstKeyValue
    \/ LoopTurn
    \/ MainPrompt

SpecBatch == InitBatch /\ [][NextBatch]_vars

\* The show lines among the lines written since the call began.
IsShowLine(line) == \E label \in Interfaces : line = "show int sw " \o label \o "\n"
ShowLines == SelectSeq(SubSeq(sent, Len(lastCall.before) + 1, Len(sent)), IsShowLine)

\* The lines that precede the answer to the call's query number i.
Preceding(i) ==
    lastCall.unread
        \o Flatten([j \in 1..(i - 1) |-> script[lastCall.args[1][j]]])

(***************************************************************************)
(* C18. get_port_networks(ports) writes one show line for each port, in    *)
(* the order of ports: the show lines written so far are those of the      *)
(* first ports, a port's show line is written only when all the output of  *)
(* the ports before it, the end marker and the main prompt included, has   *)
(* been taken, and a call that returns has written one for every port.     *)
(* The dictionaries it has then are those of exactly the given ports, each *)
(* made of the switch's answer to that port's show line and of nothing     *)
(* else.                                                                   *)
(***************************************************************************)
C18_PortsInOrder ==
    lastCall.op = "get_port_networks" =>
        LET ports == lastCall.args[1]
        IN  /\ ShowLines = [i \in 1..Len(Queried) |->
                               "show int sw " \o ports[i] \o "\n"]
            /\ pc \in {"first_kv", "loop", "main_prompt"} /\ Len(Queried) >= 2 =>
                   \E n \in Handled : n >= Len(Preceding(Len(Queried)))
            /\ pc = "idle" /\ error # Timeout =>
                   /\ Len(Queried) = Len(ports)
                   /\ DOMAIN port_configs = {ports[i] : i \in 1..Len(ports)}
                   /\ error = NoError =>
                          DOMAIN networks = {ports[i] : i \in 1..Len(ports)}
                   /\ \A port \in DOMAIN port_configs :
                          Some(port_configs[port])
                              = int_config_fresh(Flatten(script[port]))

\* C18 holds of the calls that begin with nothing unread.
PortsInOrder_Synchronised == Synchronised => C18_PortsInOrder

\* A call on two ports has returned.
PortsInOrder_Reached ==
    /\ Synchronised
    /\ lastCall.op = "get_port_networks"
    /\ Len(lastCall.args[1]) = 2
    /\ pc = "idle"
    /\ error = NoError
    /\ Cardinality(DOMAIN networks) = 2
====
